---- MODULE Spec2Model ----
(***************************************************************************)
(* Model of the batch orchestration and request-resilience layer of the    *)
(* transcript processor:                                                   *)
(*   - transcribe_audio_with_deepgram (transcribe.py): pre-flight checks    *)
(*     and the retry loop around the speech-to-text request;               *)
(*   - TranscriptionApp (main.py): the batch queue, start/stop handlers     *)
(*     and the worker thread _batch_processing_thread.                     *)
(***************************************************************************)
EXTENDS Integers, Sequences, FiniteSets, TLC

(***************************************************************************)
(* Bounds of the model                                                     *)
(***************************************************************************)
\* number of distinct audio files the user can put in the queue
MaxFiles == 3
\* number of times start_batch_processing gets past its checks
MaxRuns == 2

(***************************************************************************)
(* Program constants                                                       *)
(***************************************************************************)
\* transcribe.py:114  max_retries = 3
max_retries == 3
\* transcribe.py:115  retry_delay = 2
initial_retry_delay == 2

(***************************************************************************)
(* transcribe_audio_with_deepgram                                          *)
(***************************************************************************)
\* What one requests.post can produce: a network-level failure
\* (requests.RequestException) or a response with a status and a body.  For
\* a 200 the body stands for the transcript carried by the JSON response.
NetFailure == [net |-> TRUE, status |-> 0, body |-> "unreachable"]
Responses ==
    { NetFailure,
      [net |-> FALSE, status |-> 200, body |-> "hello"],
      [net |-> FALSE, status |-> 200, body |-> ""],
      [net |-> FALSE, status |-> 429, body |-> "slow down"],
      [net |-> FALSE, status |-> 401, body |-> "bad key"],
      [net |-> FALSE, status |-> 500, body |-> "oops"] }

\* One answer per possible attempt of a call
ResponseSeqs == [1..max_retries -> Responses]

\* events a call produces, in order
EvRequest == [ev |-> "request", secs |-> 0]
EvSleep(d) == [ev |-> "sleep", secs |-> d]

\* results of a call
TReturn(r, trace) ==
    [outcome |-> "return", error |-> "none", status |-> r.status,
     body |-> r.body, trace |-> trace]
TRaise(kind, status, body, trace) ==
    [outcome |-> "raise", error |-> kind, status |-> status,
     body |-> body, trace |-> trace]
\* the for loop ran out without return or raise: the function returns None
TNone(trace) ==
    [outcome |-> "none", error |-> "none", status |-> 0,
     body |-> "", trace |-> trace]

\* `if not api_key: api_key = os.getenv(...)`
ResolveKey(api_key, env_key) == IF api_key = "" THEN env_key ELSE api_key

\* `attempt < max_retries - 1`: another attempt is left
MayRetry_off(attempt) == attempt < max_retries
MayRetry(attempt) == attempt < max_retries - 1

\* `retry_delay *= 2`
NextDelay_const(d) == d
NextDelay(d) == d * 2

\* `elif response.status_code == 429`
IsRateLimit_any(status) == status # 200
IsRateLimit(status) == status = 429

\* the body of `for attempt in range(max_retries)`, attempt counted from 0
RECURSIVE RetryLoop(_, _, _, _)
RetryLoop(attempt, retry_delay, resp, trace) ==
    IF attempt >= max_retries THEN TNone(trace)
    ELSE
      LET r  == resp[attempt + 1]
          tr == Append(trace, EvRequest)
      IN  IF r.net
          THEN \* except requests.RequestException
               IF MayRetry(attempt)
               THEN RetryLoop(attempt + 1, NextDelay(retry_delay), resp,
                              Append(tr, EvSleep(retry_delay)))
               ELSE TRaise("network", 0, r.body, tr)
          ELSE IF r.status = 200
          THEN TReturn(r, tr)
          ELSE IF IsRateLimit(r.status)
          THEN IF MayRetry(attempt)
               THEN RetryLoop(attempt + 1, NextDelay(retry_delay), resp,
                              Append(tr, EvSleep(retry_delay)))
               ELSE TRaise("rate_limit", r.status, r.body, tr)
          ELSE \* any other status: raise Exception, caught by
               \* `except Exception` and re-raised
               TRaise("api", r.status, r.body, tr)

\* the pre-flight checks, mutated: the key check comes after the request loop
PreflightKey_late(key) == FALSE
PreflightKey(key) == key = ""

\* the whole function
transcribe_audio_with_deepgram(file_exists, api_key, env_key, resp) ==
    IF ~file_exists THEN TRaise("file_not_found", 0, "", << >>)
    ELSE IF PreflightKey(ResolveKey(api_key, env_key))
    THEN TRaise("credentials", 0, "", << >>)
    ELSE RetryLoop(0, initial_retry_delay, resp, << >>)

\* everything a call can come to with a given key, the environment holding no
\* key: the file may be missing, and each attempt may be answered in any way
TranscribeResults ==
    [k \in {"", "key"} |->
        { transcribe_audio_with_deepgram(file_exists, k, "", resp) :
              file_exists \in BOOLEAN, resp \in ResponseSeqs }]

\* number of requests, and the sleeps in order, of a trace
RECURSIVE CountRequests(_)
CountRequests(trace) ==
    IF trace = << >> THEN 0
    ELSE (IF Head(trace).ev = "request" THEN 1 ELSE 0) + CountRequests(Tail(trace))
RECURSIVE Sleeps(_)
Sleeps(trace) ==
    IF trace = << >> THEN << >>
    ELSE IF Head(trace).ev = "sleep"
         THEN <<Head(trace).secs>> \o Sleeps(Tail(trace))
         ELSE Sleeps(Tail(trace))


(***************************************************************************)
(* The query parameters of the transcription request                       *)
(***************************************************************************)
\* Python's None, as str() and an f-string render it
NoneValue == "None"

OptionKeys ==
    {"model", "punctuate", "diarize", "smart_format", "language",
     "detect_language", "summarize", "detect_topics", "utterances",
     "profanity_filter", "redact", "alternatives"}

default_options ==
    [model |-> "nova-2", punctuate |-> TRUE, diarize |-> FALSE,
     smart_format |-> TRUE, language |-> "auto", detect_language |-> TRUE,
     summarize |-> FALSE, detect_topics |-> FALSE, utterances |-> FALSE,
     profanity_filter |-> FALSE, redact |-> NoneValue, alternatives |-> 1]

\* default_options.update(options)
MergeOptions(options) ==
    [k \in OptionKeys |->
        IF k \in DOMAIN options THEN options[k] ELSE default_options[k]]

\* str(b).lower() of a bool, str(n) of a small int, s.strip()
BoolStr(b) == IF b THEN "true" ELSE "false"
DigitStr == <<"0", "1", "2", "3", "4", "5", "6", "7", "8", "9">>
IntStr(n) == DigitStr[n + 1]
Strip(s) == IF s = "  " THEN "" ELSE IF s = " pci " THEN "pci" ELSE s

\* truth value of a str or None
Truthy(v) == v \notin {"", NoneValue}

\* `if default_options["alternatives"] > 1`; mutated: always sent
SendAlternatives_always(n) == TRUE
SendAlternatives(n) == n > 1

\* the keys of params
ParamNames(m) ==
    {"model", "punctuate", "diarize", "smart_format", "utterances"}
        \cup (IF m.language # "auto" THEN {"language"} ELSE {})
        \cup (IF m.detect_language THEN {"detect_language"} ELSE {})
        \cup (IF m.summarize THEN {"summarize"} ELSE {})
        \cup (IF m.detect_topics THEN {"detect_topics"} ELSE {})
        \cup (IF m.profanity_filter THEN {"profanity_filter"} ELSE {})
        \cup (IF Truthy(m.redact) THEN {"redact"} ELSE {})
        \cup (IF SendAlternatives(m.alternatives) THEN {"alternatives"} ELSE {})

\* and their values, as they appear in the query string
ParamValue(m, k) ==
    IF k \in {"punctuate", "diarize", "smart_format", "utterances"}
    THEN BoolStr(m[k])
    ELSE IF k \in {"detect_language", "summarize", "detect_topics",
                   "profanity_filter"}
    THEN "true"
    ELSE IF k = "alternatives" THEN IntStr(m.alternatives)
    ELSE m[k]

BuildParams(options) ==
    LET m == MergeOptions(options)
    IN  [k \in ParamNames(m) |-> ParamValue(m, k)]

\* TranscriptionApp.get_deepgram_options, gui holding the values of the
\* settings widgets
get_deepgram_options(gui) ==
    LET keys == (OptionKeys \ {"redact"})
                    \cup (IF Strip(gui.redact) # "" THEN {"redact"} ELSE {})
    IN  [k \in keys |->
            IF k = "language"
            THEN (IF gui.language # "auto" THEN gui.language ELSE NoneValue)
            ELSE IF k = "redact" THEN Strip(gui.redact)
            ELSE gui[k]]

(***************************************************************************)
(* correct_transcript_with_openai, as the batch worker sees it             *)
(***************************************************************************)
\* largest value of the max_retries option a call is given
MaxCorrRetries == 2

\* the completions the service may send back
PlainText == "Fixed text."
BadJson == "{corrected"
GoodJson == "{\"corrected_transcript\": \"Fixed text.\"}"
EmptyObject == "{}"
JsonArray == "[1]"
Completions == {PlainText, BadJson, GoodJson, EmptyObject, JsonArray}

\* what one attempt comes to: client.chat.completions.create raises
\* openai.RateLimitError, another openai.APIError, some other exception,
\* or answers with a completion
AttemptOutcomes ==
    [kind : {"RateLimitError", "APIError", "Exception"}, text : {""}]
        \cup [kind : {"completion"}, text : Completions]

\* the exception classes of the openai package: RateLimitError derives from
\* APIStatusError, which derives from APIError
IsInstance(kind, class) ==
    \/ class = "Exception"
    \/ class = "APIError" /\ kind \in {"APIError", "RateLimitError"}
    \/ class = "RateLimitError" /\ kind = "RateLimitError"

\* the except clauses, tried in the order they are written; mutated: every
\* exception is taken for an API error
ExceptClause_all(kind) == "APIError"
ExceptClause(kind) ==
    IF IsInstance(kind, "APIError") THEN "APIError"
    ELSE IF IsInstance(kind, "RateLimitError") THEN "RateLimitError"
    ELSE "Exception"

\* the waits of the two retrying clauses
APIErrorWait(retries) == 2 * retries
RateLimitWait(retries) == 5 * retries

\* `if retries > max_retries: raise`; mutated: the clause never gives up
RetriesExhausted_never(retries, limit) == FALSE
RetriesExhausted(retries, limit) == retries > limit

\* json.loads followed by parsed_content.get("corrected_transcript", "")
JsonParse(text) ==
    IF text = GoodJson THEN [ok |-> TRUE, object |-> TRUE, value |-> PlainText]
    ELSE IF text = EmptyObject THEN [ok |-> TRUE, object |-> TRUE, value |-> ""]
    ELSE IF text = JsonArray THEN [ok |-> TRUE, object |-> FALSE, value |-> ""]
    ELSE [ok |-> FALSE, object |-> FALSE, value |-> ""]

ParseErrorMarker == "Failed to parse JSON response"

\* results of a correction call
CReturn(corrected, marker, trace) ==
    [outcome |-> "return", error |-> "none", cause |-> "none",
     corrected_transcript |-> corrected, marker |-> marker, trace |-> trace]
CRaise(error, cause, trace) ==
    [outcome |-> "raise", error |-> error, cause |-> cause,
     corrected_transcript |-> "", marker |-> "none", trace |-> trace]
\* the while loop ended without return or raise: the function returns None
CNone(trace) ==
    [outcome |-> "none", error |-> "none", cause |-> "none",
     corrected_transcript |-> "", marker |-> "none", trace |-> trace]

\* `except json.JSONDecodeError`; mutated: the fallback drops the text
JsonFallback_drop(text, trace) == CReturn("", ParseErrorMarker, trace)
JsonFallback(text, trace) == CReturn(text, ParseErrorMarker, trace)

\* the statements after a completion arrived
BuildResult(text, format_output, trace) ==
    IF format_output
    THEN LET parsed == JsonParse(text)
         IN  IF ~parsed.ok THEN JsonFallback(text, trace)
             ELSE IF ~parsed.object
             THEN \* .get on a list: AttributeError, caught by
                  \* `except Exception` of the loop
                  CRaise("TranscriptionCorrectionError", "AttributeError", trace)
             ELSE CReturn(parsed.value, "none", trace)
    ELSE CReturn(text, "none", trace)

\* the body of `while retries <= max_retries`; n counts the requests so far
RECURSIVE CorrectLoop(_, _, _, _, _)
CorrectLoop(retries, limit, format_output, outcomes, trace) ==
    IF ~(retries <= limit) THEN CNone(trace)
    ELSE
      LET n  == CountRequests(trace) + 1
          o  == outcomes[n]
          tr == Append(trace, EvRequest)
      IN  IF o.kind = "completion"
          THEN BuildResult(o.text, format_output, tr)
          ELSE IF ExceptClause(o.kind) = "APIError"
          THEN IF RetriesExhausted(retries + 1, limit)
               THEN CRaise("TranscriptionCorrectionError", o.kind, tr)
               ELSE CorrectLoop(retries + 1, limit, format_output, outcomes,
                                Append(tr, EvSleep(APIErrorWait(retries + 1))))
          ELSE IF ExceptClause(o.kind) = "RateLimitError"
          THEN IF RetriesExhausted(retries + 1, limit)
               THEN CRaise("TranscriptionCorrectionError", o.kind, tr)
               ELSE CorrectLoop(retries + 1, limit, format_output, outcomes,
                                Append(tr, EvSleep(RateLimitWait(retries + 1))))
          ELSE CRaise("TranscriptionCorrectionError", o.kind, tr)

\* the whole function; opt holds the max_retries and format_output options
correct_transcript_with_openai(transcript, api_key, env_key, opt, outcomes) ==
    IF transcript = "" THEN CRaise("ValueError", "transcript", << >>)
    ELSE IF ResolveKey(api_key, env_key) = ""
    THEN CRaise("ValueError", "api_key", << >>)
    ELSE CorrectLoop(0, opt.max_retries, opt.format_output, outcomes, << >>)

\* the call either returns a result dictionary, which always carries
\* "corrected_transcript", or raises
CorrectionOutcomes == {"return", "raise"}

(***************************************************************************)
(* Files and paths                                                         *)
(***************************************************************************)
\* The audio files the user can pick.  Files 2k-1 and 2k carry the same name
\* in two folders, so the queue can hold distinct paths with one base name.
PathOf(n) == [folder |-> ((n - 1) % 2) + 1, stem |-> (n + 1) \div 2, ext |-> "mp3"]
AllFiles == { PathOf(n) : n \in 1..MaxFiles }
IndexOf(p) == CHOOSE n \in 1..MaxFiles : PathOf(n) = p

\* os.path.splitext(os.path.basename(file_path))[0]
BaseFilename(file_path) == file_path.stem

\* os.path.join(self.batch_dir, sub, f"{base_filename}{suffix}")
ArtifactPath(dir, sub, base, suffix) ==
    [dir |-> dir, sub |-> sub, base |-> base, suffix |-> suffix]
RawJsonPath(dir, f)  == ArtifactPath(dir, "raw_transcripts", BaseFilename(f), "_raw.json")
RawTxtPath(dir, f)   == ArtifactPath(dir, "raw_transcripts", BaseFilename(f), ".txt")
CorrJsonPath(dir, f) == ArtifactPath(dir, "corrected_transcripts", BaseFilename(f), "_corrected.json")
CorrTxtPath(dir, f)  == ArtifactPath(dir, "corrected_transcripts", BaseFilename(f), ".txt")
SummaryPath(dir)     == ArtifactPath(dir, "", 0, "batch_summary.txt")

\* the single-file writers save_raw_transcript and save_corrected_transcript
\* name their artifacts differently from the batch worker
save_raw_transcript_paths(f) ==
    { ArtifactPath("transcripts", "", BaseFilename(f), "_raw_transcript.json"),
      ArtifactPath("transcripts", "", BaseFilename(f), "_raw_transcript.txt") }
save_corrected_transcript_paths(f) ==
    { ArtifactPath("corrected_transcripts", "", BaseFilename(f),
                   "_corrected_transcript.json"),
      ArtifactPath("corrected_transcripts", "", BaseFilename(f),
                   "_corrected_transcript.txt") }

\* no file of the queue: the source of the summary
NoFile == [folder |-> 0, stem |-> 0, ext |-> ""]

(***************************************************************************)
(* State                                                                   *)
(***************************************************************************)
VARIABLES
    batch_files,              \* self.batch_files: the queue, a list of paths
    batch_processing_active,  \* self.batch_processing_active
    batch_dir,                \* self.batch_dir: 0 until the first start
    deepgram_key,             \* self.deepgram_api_key_var
    openai_key,               \* self.openai_api_key_var
    dirs,                     \* directories on disk, as <<batch dir, sub>>
    disk,                     \* files on disk: [path, src]
    workers,                  \* the worker threads, by run number
    nruns,                    \* number of workers spawned so far
    last_msgbox,              \* the last message box shown to the user
    t_in,                     \* a direct call of transcribe_audio_with_deepgram
    t_out                     \* and its result

vars == <<batch_files, batch_processing_active, batch_dir, deepgram_key,
          openai_key, dirs, disk, workers, nruns, last_msgbox, t_in, t_out>>

Runs == 1..MaxRuns

\* a thread that was never started
NoWorker ==
    [pc |-> "idle", do_correction |-> FALSE, total_files |-> 0,
     processed |-> 0, errors |-> 0, i |-> 0,
     files |-> << >>, shared |-> FALSE, broke |-> FALSE,
     log |-> << >>, summary |-> "none", start_dir |-> 0, strayed |-> FALSE,
     stop_req |-> FALSE, stop_at |-> -1, transcript |-> "",
     cur |-> {}, steps |-> << >>, progress |-> 0]

\* positions of a worker inside the processing of one file
InFile == {"transcribing", "raw_json", "raw_txt", "correcting", "corr_json", "corr_txt"}
\* positions in which a request to a remote service is in flight
InFlight == {"transcribing", "correcting"}
Alive(w) == workers[w].pc \notin {"idle", "done"}

NoCall == [file_exists |-> FALSE, api_key |-> "", env_key |-> "", resp |-> << >>]
Pending == [outcome |-> "pending", error |-> "none", status |-> 0,
            body |-> "", trace |-> << >>]

Keys == {"", "key"}

\* the application after __init__ (main.py:85-90); the keys come from the
\* configuration file and may be empty
Init ==
    /\ batch_files = << >>
    /\ batch_processing_active = FALSE
    /\ batch_dir = 0
    /\ deepgram_key \in Keys
    /\ openai_key \in Keys
    /\ dirs = {}
    /\ disk = {}
    /\ workers = [w \in Runs |-> NoWorker]
    /\ nruns = 0
    /\ last_msgbox = "none"
    /\ t_in = NoCall
    /\ t_out = Pending

(***************************************************************************)
(* The queue                                                               *)
(***************************************************************************)
\* the list object a worker iterates is self.batch_files itself for as long
\* as clear_batch_files has not rebound the attribute
AppendShared(f) ==
    [w \in Runs |-> IF workers[w].shared
                    THEN [workers[w] EXCEPT !.files = Append(@, f)]
                    ELSE workers[w]]

\* add_batch_files / add_batch_folder: append a path not yet in the queue
\* (files are picked in a fixed order)
add_batch_files ==
    \E n \in 1..MaxFiles :
        /\ \A k \in 1..Len(batch_files) : IndexOf(batch_files[k]) < n
        /\ batch_files' = Append(batch_files, PathOf(n))
        /\ workers' = AppendShared(PathOf(n))
        /\ UNCHANGED <<batch_processing_active, batch_dir, deepgram_key,
                       openai_key, dirs, disk, nruns, last_msgbox, t_in, t_out>>

\* clear_batch_files: self.batch_files = [] binds a new list
clear_batch_files ==
    /\ batch_files # << >>
    /\ batch_files' = << >>
    /\ workers' = [w \in Runs |-> [workers[w] EXCEPT !.shared = FALSE]]
    /\ UNCHANGED <<batch_processing_active, batch_dir, deepgram_key,
                   openai_key, dirs, disk, nruns, last_msgbox, t_in, t_out>>


(***************************************************************************)
(* start_batch_processing / stop_batch_processing                          *)
(***************************************************************************)
\* `if not self.batch_files: ... return` and `if not deepgram_key: ... return`
QueueEmpty(q) == q = << >>
KeyMissing_never(k) == FALSE
KeyMissing(k) == k = ""

\* datetime.now() has a resolution of one second: a start gets the directory
\* of the previous start when both fall in the same second, else a new one
NextBatchDirs == IF batch_dir = 0 THEN {1} ELSE {batch_dir, batch_dir + 1}

\* os.makedirs of the batch directory and its subdirectories
MakeBatchDirs(d, do_correction) ==
    {<<d, "">>, <<d, "raw_transcripts">>}
      \cup (IF do_correction THEN {<<d, "corrected_transcripts">>} ELSE {})

\* the thread created by threading.Thread(target=self._batch_processing_thread,
\* args=(do_correction,))
NewWorker(do_correction, d) ==
    [NoWorker EXCEPT !.pc = "init", !.do_correction = do_correction,
                     !.start_dir = d]

start_batch_processing ==
    IF QueueEmpty(batch_files)
    THEN /\ last_msgbox' = "no_files"
         /\ UNCHANGED <<batch_files, batch_processing_active, batch_dir,
                        deepgram_key, openai_key, dirs, disk, workers, nruns,
                        t_in, t_out>>
    ELSE IF KeyMissing(deepgram_key)
    THEN /\ last_msgbox' = "no_key"
         /\ UNCHANGED <<batch_files, batch_processing_active, batch_dir,
                        deepgram_key, openai_key, dirs, disk, workers, nruns,
                        t_in, t_out>>
    ELSE \E answer \in {"yes", "no"} :
           IF openai_key = "" /\ answer # "yes"
           THEN /\ last_msgbox' = "declined"
                /\ UNCHANGED <<batch_files, batch_processing_active,
                               batch_dir, deepgram_key, openai_key, dirs,
                               disk, workers, nruns, t_in, t_out>>
           ELSE \E d \in NextBatchDirs :
                  LET do_correction == openai_key # "" IN
                  /\ nruns < MaxRuns
                  /\ batch_processing_active' = TRUE
                  /\ batch_dir' = d
                  /\ dirs' = dirs \cup MakeBatchDirs(d, do_correction)
                  /\ nruns' = nruns + 1
                  /\ workers' = [w \in Runs |->
                                   IF w = nruns + 1
                                   THEN NewWorker(do_correction, d)
                                   ELSE workers[w]]
                  /\ last_msgbox' = IF openai_key = "" THEN "confirmed"
                                    ELSE last_msgbox
                  /\ UNCHANGED <<batch_files, deepgram_key, openai_key, disk,
                                 t_in, t_out>>

\* history: the first stop request of a run, and the file in progress then
NoteStop(wk) ==
    IF wk.pc \notin {"idle", "done"} /\ ~wk.stop_req
    THEN [wk EXCEPT !.stop_req = TRUE,
                    !.stop_at = IF wk.pc \in InFile THEN wk.i ELSE -1]
    ELSE wk

stop_batch_processing ==
    /\ batch_processing_active' = FALSE
    /\ workers' = [w \in Runs |-> NoteStop(workers[w])]
    /\ UNCHANGED <<batch_files, batch_dir, deepgram_key, openai_key, dirs,
                   disk, nruns, last_msgbox, t_in, t_out>>


(***************************************************************************)
(* _batch_processing_thread                                                *)
(***************************************************************************)
SetWorker(w, wk) == workers' = [workers EXCEPT ![w] = wk]

\* the file the worker is at: enumerate index i, counted from 0
CurrentFile(wk) == wk.files[wk.i + 1]

\* `if not self.batch_processing_active: ... break`
ShouldBreak_never(active) == FALSE
ShouldBreak(active) == ~active

\* `except Exception as e: errors += 1`, then the next iteration
\* (history: log takes the outcome of the file, steps the steps of the file
\* that succeeded, kept in cur while the file is in progress)
CountError_abort(wk, reason) ==
    [wk EXCEPT !.errors = @ + 1, !.log = Append(@, reason), !.pc = "final",
               !.steps = Append(@, wk.cur), !.cur = {}]
CountError(wk, reason) ==
    [wk EXCEPT !.errors = @ + 1, !.log = Append(@, reason),
               !.i = @ + 1, !.pc = "check",
               !.steps = Append(@, wk.cur), !.cur = {}]

\* `processed += 1`, then the next iteration; mutated: the counter is left
\* as it is
CountProcessed_silent(wk) ==
    [wk EXCEPT !.log = Append(@, "ok"), !.i = @ + 1, !.pc = "check",
               !.steps = Append(@, wk.cur), !.cur = {}]
CountProcessed(wk) ==
    [wk EXCEPT !.processed = @ + 1, !.log = Append(@, "ok"),
               !.i = @ + 1, !.pc = "check",
               !.steps = Append(@, wk.cur), !.cur = {}]

\* history: a step of the current file succeeded
NoteStep(wk, step) == [wk EXCEPT !.cur = @ \cup {step}]

\* open(path, 'w') and the write: the file is created or overwritten
WriteFile(path, src) ==
    { a \in disk : a.path # path } \cup { [path |-> path, src |-> src] }
\* open(path, 'w') can succeed only in an existing directory
CanWrite(path) == <<path.dir, path.sub>> \in dirs

\* history: the worker wrote outside the directory created for its run
NoteDir(wk) == [wk EXCEPT !.strayed = @ \/ (batch_dir # wk.start_dir)]

\* line 1078: total_files = len(self.batch_files)
WorkerInit(w) ==
    /\ workers[w].pc = "init"
    /\ SetWorker(w, [workers[w] EXCEPT !.total_files = Len(batch_files),
                                       !.pc = "iter"])
    /\ UNCHANGED <<batch_files, batch_processing_active, batch_dir,
                   deepgram_key, openai_key, dirs, disk, nruns, last_msgbox,
                   t_in, t_out>>

\* line 1084: enumerate(self.batch_files) takes the list the attribute is
\* bound to at that moment
WorkerIter(w) ==
    /\ workers[w].pc = "iter"
    /\ SetWorker(w, [workers[w] EXCEPT !.files = batch_files,
                                       !.shared = TRUE, !.pc = "check"])
    /\ UNCHANGED <<batch_files, batch_processing_active, batch_dir,
                   deepgram_key, openai_key, dirs, disk, nruns, last_msgbox,
                   t_in, t_out>>

\* line 1093: progress = int((i / total_files) * 100)
Progress(i, total_files) == (i * 100) \div total_files

\* the loop takes the next item of the list for as long as there is one
LoopEnds(wk) == wk.i >= Len(wk.files)

\* lines 1084-1106: the loop head, the cancellation check, the progress
\* display and the start of the transcription call; with total_files = 0
\* the division raises ZeroDivisionError, which no clause catches: the
\* thread runs its finally clause and dies
WorkerCheck(w) ==
    LET wk == workers[w] IN
    /\ wk.pc = "check"
    /\ IF LoopEnds(wk)
       THEN SetWorker(w, [wk EXCEPT !.pc = "final"])
       ELSE IF ShouldBreak(batch_processing_active)
       THEN SetWorker(w, [wk EXCEPT !.pc = "final", !.broke = TRUE])
       ELSE IF wk.total_files = 0
       THEN SetWorker(w, [wk EXCEPT !.pc = "finally"])
       ELSE SetWorker(w, [wk EXCEPT !.pc = "transcribing",
                                    !.progress = Progress(wk.i, wk.total_files)])
    /\ UNCHANGED <<batch_files, batch_processing_active, batch_dir,
                   deepgram_key, openai_key, dirs, disk, nruns, last_msgbox,
                   t_in, t_out>>

\* lines 1102-1114: the transcription call returns or raises
WorkerTranscribed(w) ==
    LET wk == workers[w] IN
    /\ wk.pc = "transcribing"
    /\ \E res \in TranscribeResults[deepgram_key] :
             IF res.outcome = "return"
             THEN IF res.body = ""
                  THEN SetWorker(w, CountError([wk EXCEPT !.transcript = ""],
                                               "no_transcript"))
                  ELSE SetWorker(w, [NoteStep(wk, "transcript")
                                        EXCEPT !.transcript = res.body,
                                               !.pc = "raw_json"])
             ELSE SetWorker(w, CountError(wk, "transcribe"))
    /\ UNCHANGED <<batch_files, batch_processing_active, batch_dir,
                   deepgram_key, openai_key, dirs, disk, nruns, last_msgbox,
                   t_in, t_out>>

\* an OSError of a write inside the per-file try is caught by
\* `except Exception` (line 1153) like any other failure of the file
OnWriteFailure_goon(wk, next) ==
    IF next = "check" THEN CountProcessed(wk) ELSE [wk EXCEPT !.pc = next]
OnWriteFailure(wk, next) == CountError(wk, "write")

\* `if do_correction:` after the raw artifacts (line 1130)
NextAfterRaw_always(do_correction) == "correcting"
NextAfterRaw(do_correction) == IF do_correction THEN "correcting" ELSE "check"

\* one write of an artifact of the current file (lines 1119-1121, 1123-1125,
\* 1141-1143, 1145-1147): on success the worker goes on with `next`, an
\* OSError is counted as the file's error
WorkerWrite(w, at, path, next) ==
    LET wk == workers[w] IN
    /\ wk.pc = at
    /\ \E io_ok \in BOOLEAN :
         IF io_ok /\ CanWrite(path)
         THEN /\ disk' = WriteFile(path, CurrentFile(wk))
              /\ SetWorker(w, IF next = "check"
                              THEN CountProcessed(NoteStep(NoteDir(wk), at))
                              ELSE [NoteStep(NoteDir(wk), at) EXCEPT !.pc = next])
         ELSE /\ disk' = disk
              /\ SetWorker(w, OnWriteFailure(wk, next))
    /\ UNCHANGED <<batch_files, batch_processing_active, batch_dir,
                   deepgram_key, openai_key, dirs, nruns, last_msgbox,
                   t_in, t_out>>

WorkerRawJson(w) ==
    /\ workers[w].pc = "raw_json"
    /\ WorkerWrite(w, "raw_json", RawJsonPath(batch_dir, CurrentFile(workers[w])),
                   "raw_txt")

WorkerRawTxt(w) ==
    /\ workers[w].pc = "raw_txt"
    /\ WorkerWrite(w, "raw_txt", RawTxtPath(batch_dir, CurrentFile(workers[w])),
                   NextAfterRaw(workers[w].do_correction))

\* an exception of the correction call is caught by `except Exception`
\* (line 1153); mutated: the file is counted as processed all the same
OnCorrectionFailure_ok(wk) == CountProcessed(wk)
OnCorrectionFailure(wk) == CountError(wk, "correct")

\* lines 1134-1138: the correction call returns or raises
WorkerCorrected(w) ==
    LET wk == workers[w] IN
    /\ wk.pc = "correcting"
    /\ \E out \in CorrectionOutcomes :
         IF out = "return"
         THEN SetWorker(w, [NoteStep(wk, "corrected") EXCEPT !.pc = "corr_json"])
         ELSE SetWorker(w, OnCorrectionFailure(wk))
    /\ UNCHANGED <<batch_files, batch_processing_active, batch_dir,
                   deepgram_key, openai_key, dirs, disk, nruns, last_msgbox,
                   t_in, t_out>>

WorkerCorrJson(w) ==
    /\ workers[w].pc = "corr_json"
    /\ WorkerWrite(w, "corr_json", CorrJsonPath(batch_dir, CurrentFile(workers[w])),
                   "corr_txt")

WorkerCorrTxt(w) ==
    /\ workers[w].pc = "corr_txt"
    /\ WorkerWrite(w, "corr_txt", CorrTxtPath(batch_dir, CurrentFile(workers[w])),
                   "check")

\* `if self.batch_processing_active:` guards the summary
WritesSummary_always(active) == TRUE
WritesSummary(active) == active

\* lines 1158-1185: after the loop, the summary and the completion message
WorkerFinal(w) ==
    LET wk == workers[w] IN
    /\ wk.pc = "final"
    /\ IF WritesSummary(batch_processing_active)
       THEN /\ \E io_ok \in BOOLEAN :
                 IF io_ok /\ CanWrite(SummaryPath(batch_dir))
                 THEN /\ disk' = WriteFile(SummaryPath(batch_dir), NoFile)
                      /\ SetWorker(w, [NoteDir(wk) EXCEPT !.summary = "written",
                                                          !.progress = 100,
                                                          !.pc = "finally"])
                 ELSE /\ disk' = disk
                      /\ SetWorker(w, [wk EXCEPT !.summary = "failed",
                                                 !.progress = 100,
                                                 !.pc = "finally"])
            /\ last_msgbox' = "complete"
       ELSE /\ SetWorker(w, [wk EXCEPT !.pc = "finally"])
            /\ UNCHANGED <<disk, last_msgbox>>
    /\ UNCHANGED <<batch_files, batch_processing_active, batch_dir,
                   deepgram_key, openai_key, dirs, nruns, t_in, t_out>>

\* `finally: self.batch_processing_active = False`
FlagAtExit_keep(active) == active
FlagAtExit(active) == FALSE

\* lines 1186-1188: the finally clause, and the thread ends
WorkerExit(w) ==
    /\ workers[w].pc = "finally"
    /\ batch_processing_active' = FlagAtExit(batch_processing_active)
    /\ SetWorker(w, [workers[w] EXCEPT !.pc = "done"])
    /\ UNCHANGED <<batch_files, batch_dir, deepgram_key, openai_key, dirs,
                   disk, nruns, last_msgbox, t_in, t_out>>

WorkerStep(w) ==
    \/ WorkerInit(w)
    \/ WorkerIter(w)
    \/ WorkerCheck(w)
    \/ WorkerTranscribed(w)
    \/ WorkerRawJson(w)
    \/ WorkerRawTxt(w)
    \/ WorkerCorrected(w)
    \/ WorkerCorrJson(w)
    \/ WorkerCorrTxt(w)
    \/ WorkerFinal(w)
    \/ WorkerExit(w)

(***************************************************************************)
(* A direct call of transcribe_audio_with_deepgram                         *)
(***************************************************************************)
CallInputs ==
    [file_exists : BOOLEAN, api_key : Keys, env_key : Keys, resp : ResponseSeqs]

InitT ==
    /\ batch_files = << >>
    /\ batch_processing_active = FALSE
    /\ batch_dir = 0
    /\ deepgram_key = ""
    /\ openai_key = ""
    /\ dirs = {}
    /\ disk = {}
    /\ workers = [w \in Runs |-> NoWorker]
    /\ nruns = 0
    /\ last_msgbox = "none"
    /\ t_in \in CallInputs
    /\ t_out = Pending

CallTranscribe ==
    /\ t_out = Pending
    /\ t_out' = transcribe_audio_with_deepgram(t_in.file_exists, t_in.api_key,
                                               t_in.env_key, t_in.resp)
    /\ UNCHANGED <<batch_files, batch_processing_active, batch_dir,
                   deepgram_key, openai_key, dirs, disk, workers, nruns,
                   last_msgbox, t_in>>

NextT == CallTranscribe

SpecT == InitT /\ [][NextT]_vars

(***************************************************************************)
(* A direct call of correct_transcript_with_openai                         *)
(***************************************************************************)
\* the options of a call, and one outcome for each attempt it may make
CorrectOptions == [max_retries : 0..MaxCorrRetries, format_output : BOOLEAN]
CorrectInputs ==
    UNION { [transcript : {"", "Raw text."}, api_key : Keys, env_key : Keys,
             opt : {opt},
             outcomes : [1..(opt.max_retries + 1) -> AttemptOutcomes]] :
            opt \in CorrectOptions }

InitC ==
    /\ batch_files = << >>
    /\ batch_processing_active = FALSE
    /\ batch_dir = 0
    /\ deepgram_key = ""
    /\ openai_key = ""
    /\ dirs = {}
    /\ disk = {}
    /\ workers = [w \in Runs |-> NoWorker]
    /\ nruns = 0
    /\ last_msgbox = "none"
    /\ t_in \in CorrectInputs
    /\ t_out = Pending

CallCorrect ==
    /\ t_out = Pending
    /\ t_out' = correct_transcript_with_openai(t_in.transcript, t_in.api_key,
                                               t_in.env_key, t_in.opt,
                                               t_in.outcomes)
    /\ UNCHANGED <<batch_files, batch_processing_active, batch_dir,
                   deepgram_key, openai_key, dirs, disk, workers, nruns,
                   last_msgbox, t_in>>

NextC == CallCorrect

SpecC == InitC /\ [][NextC]_vars

(***************************************************************************)
(* Building the request parameters, from options passed by a caller or     *)
(* from the settings of the application                                    *)
(***************************************************************************)
\* the option mappings a caller passes: none, the two keys of the command
\* line, the language alone, or every key
GivenSets == { {}, {"model", "diarize"}, {"language"}, OptionKeys }

DirectValues ==
    [model : {"nova-2", "base"}, punctuate : BOOLEAN, diarize : BOOLEAN,
     smart_format : BOOLEAN, language : {"auto", "en"},
     detect_language : BOOLEAN, summarize : BOOLEAN, detect_topics : BOOLEAN,
     utterances : BOOLEAN, profanity_filter : BOOLEAN,
     redact : {NoneValue, "", "pci"}, alternatives : 0..2]

\* the settings widgets: the language is picked from a list, the
\* alternatives from a spin box that starts at 1, redact is typed
GuiValues ==
    [model : {"nova-2", "base"}, punctuate : BOOLEAN, diarize : BOOLEAN,
     smart_format : BOOLEAN, language : {"auto", "en"},
     detect_language : BOOLEAN, summarize : BOOLEAN, detect_topics : BOOLEAN,
     utterances : BOOLEAN, profanity_filter : BOOLEAN,
     redact : {"", "  ", " pci "}, alternatives : 1..2]

ParamInputs ==
    [route : {"direct"}, given : GivenSets, vals : DirectValues]
        \cup [route : {"app"}, given : {OptionKeys}, vals : GuiValues]

InitP ==
    /\ batch_files = << >>
    /\ batch_processing_active = FALSE
    /\ batch_dir = 0
    /\ deepgram_key = ""
    /\ openai_key = ""
    /\ dirs = {}
    /\ disk = {}
    /\ workers = [w \in Runs |-> NoWorker]
    /\ nruns = 0
    /\ last_msgbox = "none"
    /\ t_in \in ParamInputs
    /\ t_out = Pending

RequestBuilt(options) ==
    [outcome |-> "built", options |-> options,
     merged |-> MergeOptions(options), params |-> BuildParams(options)]

\* a caller hands its own mapping to transcribe_audio_with_deepgram
BuildDirect ==
    /\ t_out = Pending
    /\ t_in.route = "direct"
    /\ t_out' = RequestBuilt([k \in t_in.given |-> t_in.vals[k]])
    /\ UNCHANGED <<batch_files, batch_processing_active, batch_dir,
                   deepgram_key, openai_key, dirs, disk, workers, nruns,
                   last_msgbox, t_in>>

\* the application hands over what get_deepgram_options returns
BuildFromApp ==
    /\ t_out = Pending
    /\ t_in.route = "app"
    /\ t_out' = RequestBuilt(get_deepgram_options(t_in.vals))
    /\ UNCHANGED <<batch_files, batch_processing_active, batch_dir,
                   deepgram_key, openai_key, dirs, disk, workers, nruns,
                   last_msgbox, t_in>>

NextP == BuildDirect \/ BuildFromApp

SpecP == InitP /\ [][NextP]_vars

(***************************************************************************)
(* Specifications of the batch                                             *)
(***************************************************************************)
\* One batch run: the user fills the queue, presses Start (attempts that
\* fail their checks included) and may press Stop at any moment of the run.
\* Remote calls and writes may fail in every way.
Next ==
    \/ (nruns = 0 /\ add_batch_files)
    \/ (nruns = 0 /\ clear_batch_files)
    \/ (nruns = 0 /\ start_batch_processing)
    \/ stop_batch_processing
    \/ \E w \in Runs : WorkerStep(w)

Spec == Init /\ [][Next]_vars

\* The worker is a thread of its own and every call it makes returns or
\* raises: each of its steps is eventually taken.
SpecFair == Spec /\ \A w \in Runs : WF_vars(WorkerStep(w))

\* Start and Stop pressed at any moment, also while a worker is running, over
\* a queue filled beforehand; executions in which no file fails.
NoFileFails == \A w \in Runs : workers'[w].errors = 0

NextConc ==
    \/ (nruns = 0 /\ add_batch_files)
    \/ (nruns = 0 /\ clear_batch_files)
    \/ start_batch_processing
    \/ stop_batch_processing
    \/ \E w \in Runs : WorkerStep(w) /\ NoFileFails

SpecConc == Init /\ [][NextConc]_vars

\* One batch run during which the user goes on editing the queue: files are
\* added and the queue is cleared at any moment, before and after Start.
NextEdit ==
    \/ add_batch_files
    \/ clear_batch_files
    \/ (nruns = 0 /\ start_batch_processing)
    \/ \E w \in Runs : WorkerStep(w) /\ NoFileFails

SpecEdit == Init /\ [][NextEdit]_vars

TypeOK ==
    /\ batch_processing_active \in BOOLEAN
    /\ nruns \in 0..MaxRuns
    /\ \A w \in Runs : workers[w].i <= Len(workers[w].files)


(***************************************************************************)
(* Claims about transcribe_audio_with_deepgram (checked under SpecT)       *)
(***************************************************************************)
Called == t_out # Pending
\* the call gets past its pre-flight checks
Preflighted ==
    t_in.file_exists /\ (t_in.api_key # "" \/ t_in.env_key # "")
\* the answer to attempt k is a 429 / a failure worth another attempt
Is429(k) == ~t_in.resp[k].net /\ t_in.resp[k].status = 429
Retryable(k) == t_in.resp[k].net \/ t_in.resp[k].status = 429
\* the first attempt whose answer ends the call, whatever follows it
Decisive(k) ==
    /\ k \in 1..3
    /\ \A j \in 1..(k - 1) : Retryable(j)
    /\ (k = 3 \/ ~Retryable(k))
RECURSIVE Pow2(_)
Pow2(n) == IF n = 0 THEN 1 ELSE 2 * Pow2(n - 1)
\* k requests, with a sleep of 2*2^(j-1) seconds after each but the last
Schedule(k) ==
    [n \in 1..(2 * k - 1) |->
        IF n % 2 = 1 THEN [ev |-> "request", secs |-> 0]
        ELSE [ev |-> "sleep", secs |-> 2 * Pow2((n \div 2) - 1)]]

\* C6: a call whose three attempts are all answered with 429 makes exactly 3
\* requests, sleeps 2 s after the first and 4 s after the second, does not
\* sleep after the third and raises the rate-limit error.
C6_Always429 ==
    (Called /\ Preflighted /\ \A k \in 1..3 : Is429(k)) =>
        /\ t_out.outcome = "raise"
        /\ t_out.error = "rate_limit"
        /\ t_out.trace =
             << [ev |-> "request", secs |-> 0], [ev |-> "sleep", secs |-> 2],
                [ev |-> "request", secs |-> 0], [ev |-> "sleep", secs |-> 4],
                [ev |-> "request", secs |-> 0] >>
C6_Witness ==
    /\ Called /\ Preflighted /\ \A k \in 1..3 : Is429(k)
    /\ t_out.outcome = "raise"
    /\ CountRequests(t_out.trace) = 3

\* C7: whatever the answers, a call makes at most 3 requests; the k-th
\* retryable failure (429 or network failure), k < 3, is followed by a sleep
\* of 2*2^(k-1) seconds and another request; a 200 ends the call at once with
\* that response; a third attempt that fails with 429 or a network failure
\* raises the rate-limit or the network error.
C7_RetryPolicy ==
    (Called /\ Preflighted) =>
        \A k \in 1..3 : Decisive(k) =>
            /\ t_out.trace = Schedule(k)
            /\ CountRequests(t_out.trace) = k
            /\ Sleeps(t_out.trace) = [j \in 1..(k - 1) |-> 2 * Pow2(j - 1)]
            /\ (~t_in.resp[k].net /\ t_in.resp[k].status = 200) =>
                   /\ t_out.outcome = "return"
                   /\ t_out.body = t_in.resp[k].body
            /\ (k = 3 /\ Is429(3)) =>
                   t_out.outcome = "raise" /\ t_out.error = "rate_limit"
            /\ (k = 3 /\ t_in.resp[3].net) =>
                   t_out.outcome = "raise" /\ t_out.error = "network"
C7_Witness ==
    /\ Called /\ Preflighted
    /\ t_in.resp[1].net /\ Is429(2)
    /\ ~t_in.resp[3].net /\ t_in.resp[3].status = 200
    /\ t_out.outcome = "return"
    /\ Sleeps(t_out.trace) = <<2, 4>>

\* C8: an answer whose status is neither 200 nor 429, on attempt 1, 2 or 3,
\* ends the call with an error that carries the status and the body; no
\* request and no sleep follows it.
C8_OtherStatusTerminal ==
    (Called /\ Preflighted) =>
        \A k \in 1..3 :
            (Decisive(k) /\ ~t_in.resp[k].net
                /\ t_in.resp[k].status \notin {200, 429}) =>
                /\ t_out.outcome = "raise"
                /\ t_out.error = "api"
                /\ t_out.status = t_in.resp[k].status
                /\ t_out.body = t_in.resp[k].body
                /\ Len(t_out.trace) = 2 * k - 1
                /\ t_out.trace[Len(t_out.trace)].ev = "request"
                /\ CountRequests(t_out.trace) = k
C8_Witness ==
    /\ Called /\ Preflighted
    /\ Is429(1) /\ Is429(2)
    /\ ~t_in.resp[3].net /\ t_in.resp[3].status = 500
    /\ t_out.outcome = "raise" /\ t_out.status = 500
    /\ CountRequests(t_out.trace) = 3

\* C9: with a missing audio file the call raises the file-not-found error,
\* and with no key given and none in the environment it raises the
\* credentials error; in both cases no request is made and the retry loop is
\* not entered (no event at all).
C9_PreflightBeforeNetwork ==
    Called =>
        /\ ~t_in.file_exists =>
               /\ t_out.outcome = "raise" /\ t_out.error = "file_not_found"
               /\ t_out.trace = << >>
        /\ (t_in.api_key = "" /\ t_in.env_key = "") =>
               /\ t_out.outcome = "raise"
               /\ t_out.trace = << >>
               /\ t_in.file_exists => t_out.error = "credentials"
C9_Witness ==
    /\ Called
    /\ t_in.file_exists /\ t_in.api_key = "" /\ t_in.env_key = ""
    /\ \A k \in 1..3 : ~t_in.resp[k].net /\ t_in.resp[k].status = 200
    /\ t_out.error = "credentials"


(***************************************************************************)
(* Claims about the batch (checked under Spec, SpecFair and SpecConc)      *)
(***************************************************************************)
Idle == ~batch_processing_active /\ \A w \in Runs : ~Alive(w)
AfterLoop == {"final", "finally"}
Exited(w) == workers[w].pc = "done"

\* the start handler ran with a non-empty queue and a speech-to-text key
StartStep ==
    /\ start_batch_processing
    /\ Idle
    /\ batch_files # << >>
    /\ deepgram_key # ""
NowRunning ==
    /\ batch_processing_active'
    /\ nruns' = nruns + 1
    /\ workers'[nruns + 1].pc = "init"

\* under fairness every worker leaves its loop and ends
WorkerEnds == \A w \in Runs : (workers[w].pc = "init") ~> Exited(w)
\* the step that ends a worker leaves the flag False, and the flag is False
\* whenever no worker is left
FlagDownAtExit ==
    /\ [][\A w \in Runs :
            (workers[w].pc # "done" /\ workers'[w].pc = "done")
                => ~batch_processing_active']_vars
    /\ []((\A w \in Runs : ~Alive(w)) => ~batch_processing_active)

\* C1 as stated: every start from Idle with a non-empty queue and a non-empty
\* speech-to-text key sets batch_processing_active and spawns the worker; the
\* worker eventually ends; once it has ended the flag is False.
C1_Original ==
    /\ [][StartStep => NowRunning]_vars
    /\ WorkerEnds
    /\ FlagDownAtExit

\* C1 amended: the same, for the starts in which the correction key is present
\* or the transcription-only question is answered with yes.
C1_StartRunsToEnd ==
    /\ [][(StartStep /\ (openai_key # "" \/ last_msgbox' = "confirmed"))
            => NowRunning]_vars
    /\ WorkerEnds
    /\ FlagDownAtExit
C1_Witness ==
    /\ Exited(1)
    /\ ~batch_processing_active
    /\ workers[1].processed >= 1
    /\ workers[1].errors >= 1
    /\ workers[1].stop_req

\* C2: a transcription call that raises counts as exactly one error of its
\* file and the loop goes on to the next file; without a stop request every
\* file of the queue gets its outcome; and a 3-file run in which only file 2
\* raises ends with processed = 2, errors = 1 and the raw artifacts of files 1
\* and 3 on disk.
C2_FaultIsolation ==
    /\ [][\A w \in Runs :
            (workers[w].pc = "transcribing"
               /\ workers'[w].log = Append(workers[w].log, "transcribe"))
            => /\ workers'[w].errors = workers[w].errors + 1
               /\ workers'[w].processed = workers[w].processed
               /\ workers'[w].pc = "check"
               /\ workers'[w].i = workers[w].i + 1]_vars
    /\ [](\A w \in Runs :
            (workers[w].pc \in AfterLoop /\ ~workers[w].stop_req)
            => Len(workers[w].log) = Len(workers[w].files))
    /\ [](\A w \in Runs :
            (workers[w].pc \in AfterLoop
               /\ workers[w].log = <<"ok", "transcribe", "ok">>)
            => /\ workers[w].processed = 2
               /\ workers[w].errors = 1
               /\ \A n \in {1, 3} :
                    LET f == workers[w].files[n] IN
                    /\ \E a \in disk :
                         /\ a.path.dir = workers[w].start_dir
                         /\ a.path.sub = "raw_transcripts"
                         /\ a.path.base = f.stem
                         /\ a.path.suffix = "_raw.json"
                    /\ \E a \in disk :
                         /\ a.path.dir = workers[w].start_dir
                         /\ a.path.sub = "raw_transcripts"
                         /\ a.path.base = f.stem
                         /\ a.path.suffix = ".txt")
C2_Witness ==
    /\ workers[1].pc = "finally"
    /\ workers[1].total_files = 3
    /\ workers[1].log = <<"ok", "transcribe", "ok">>
    /\ workers[1].processed = 2
    /\ workers[1].errors = 1
    /\ workers[1].summary = "written"

\* C3: a stop request does not move the worker; the file in progress can be
\* left only by counting its outcome and going to the loop head; and once a
\* stop was requested the worker starts no transcription call.
C3_CancelAtBoundary ==
    [][\A w \in Runs :
         /\ (~workers[w].stop_req /\ workers'[w].stop_req)
              => /\ workers'[w].pc = workers[w].pc
                 /\ workers'[w].i = workers[w].i
                 /\ workers'[w].log = workers[w].log
         /\ (workers[w].pc \in InFile /\ workers'[w].pc \notin InFile)
              => /\ workers'[w].pc = "check"
                 /\ workers'[w].i = workers[w].i + 1
                 /\ Len(workers'[w].log) = Len(workers[w].log) + 1
                 /\ workers'[w].processed + workers'[w].errors
                      = workers[w].processed + workers[w].errors + 1
         /\ (workers[w].stop_req /\ workers[w].pc # "transcribing")
              => workers'[w].pc # "transcribing"]_vars
C3_Witness ==
    /\ workers[1].stop_req
    /\ workers[1].stop_at = 0
    /\ workers[1].pc = "finally"
    /\ workers[1].broke
    /\ workers[1].i = 1
    /\ Len(workers[1].log) = 1
    /\ Len(workers[1].files) >= 2

\* C4 as stated: every run that was started has written (or tried to write)
\* its batch summary by the time the worker leaves, completed or cancelled.
C4_SummaryAlways ==
    \A w \in Runs :
        workers[w].pc \in {"finally", "done"} => workers[w].summary # "none"

\* C5 as stated: at most one worker is active and at most one request to a
\* remote service is in flight, whatever the caller's starts and stops.
C5_SingleWorker ==
    /\ Cardinality({ w \in Runs : Alive(w) }) <= 1
    /\ Cardinality({ w \in Runs : workers[w].pc \in InFlight }) <= 1

\* C10: a start with an empty queue or an empty speech-to-text key only shows
\* its error: the flag, the directories, the disk and the workers stay as
\* they are; with an empty key no run ever starts.
C10_FailedToStart ==
    /\ [][(start_batch_processing /\ (batch_files = << >> \/ deepgram_key = ""))
            => /\ last_msgbox' \in {"no_files", "no_key"}
               /\ UNCHANGED <<batch_processing_active, batch_dir, dirs, disk,
                              workers, nruns>>]_vars
    /\ [](deepgram_key = ""
            => /\ ~batch_processing_active
               /\ nruns = 0
               /\ dirs = {}
               /\ \A w \in Runs : workers[w].pc = "idle")
C10_Witness ==
    /\ last_msgbox = "no_key"
    /\ batch_files # << >>
    /\ deepgram_key = ""
    /\ ~batch_processing_active
    /\ nruns = 0
    /\ dirs = {}


\* C11: in a run started with do_correction = False the worker never makes a
\* correction call nor reaches a corrected write, the batch directory of the
\* run has no corrected_transcripts subdirectory and no corrected artifact
\* lies under it.
C11_NoCorrectionWhenDisabled ==
    \A w \in Runs :
        (workers[w].pc # "idle" /\ ~workers[w].do_correction) =>
            /\ workers[w].pc \notin {"correcting", "corr_json", "corr_txt"}
            /\ \A k \in 1..Len(workers[w].log) : workers[w].log[k] # "correct"
            /\ <<workers[w].start_dir, "corrected_transcripts">> \notin dirs
            /\ \A a \in disk :
                 a.path.dir = workers[w].start_dir
                    => a.path.sub # "corrected_transcripts"
C11_Witness ==
    /\ workers[1].pc = "finally"
    /\ ~workers[1].do_correction
    /\ workers[1].processed = 2
    /\ workers[1].summary = "written"
    /\ \E a \in disk : a.path.sub = "raw_transcripts"

\* C12: no path on disk holds two results; a corrected artifact is written
\* only for a file whose two raw artifacts were written before, from a
\* non-empty transcript; and every corrected artifact on disk has the raw
\* artifacts of its base name next to it.
RawWritten(d, f) ==
    /\ \E a \in d : a.path.sub = "raw_transcripts" /\ a.src = f
                      /\ a.path.suffix = "_raw.json"
    /\ \E a \in d : a.path.sub = "raw_transcripts" /\ a.src = f
                      /\ a.path.suffix = ".txt"
C12_OneRawOneCorrected ==
    /\ [](\A a \in disk, b \in disk : a.path = b.path => a = b)
    /\ [](\A w \in Runs :
            workers[w].pc \in {"raw_json", "raw_txt", "correcting",
                               "corr_json", "corr_txt"}
               => workers[w].transcript # "")
    /\ [][\A a \in disk' \ disk :
            a.path.sub = "corrected_transcripts" => RawWritten(disk, a.src)]_vars
    /\ [](\A a \in disk :
            a.path.sub = "corrected_transcripts" =>
               /\ \E b \in disk : /\ b.path.dir = a.path.dir
                                  /\ b.path.sub = "raw_transcripts"
                                  /\ b.path.base = a.path.base
                                  /\ b.path.suffix = "_raw.json"
               /\ \E b \in disk : /\ b.path.dir = a.path.dir
                                  /\ b.path.sub = "raw_transcripts"
                                  /\ b.path.base = a.path.base
                                  /\ b.path.suffix = ".txt")
C12_Witness ==
    /\ workers[1].pc = "check"
    /\ workers[1].log = <<"ok", "correct">>
    /\ Cardinality({ a \in disk : a.path.sub = "corrected_transcripts" }) = 2
    /\ Cardinality({ a \in disk : a.path.sub = "raw_transcripts" }) = 4

\* C17 as stated: a failed write of an artifact is never the error of its
\* file: no file of a run has a failed write as its outcome.
C17_WriteNonFatal ==
    \A w \in Runs : \A k \in 1..Len(workers[w].log) :
        workers[w].log[k] # "write"

\* C18 as stated: the raw artifacts are named {base}_raw_transcript.json and
\* {base}_raw_transcript.txt, the corrected ones
\* {base}_corrected_transcript.json and {base}_corrected_transcript.txt.
C18_ArtifactNames ==
    \A a \in disk :
        /\ a.path.sub = "raw_transcripts"
             => a.path.suffix \in {"_raw_transcript.json", "_raw_transcript.txt"}
        /\ a.path.sub = "corrected_transcripts"
             => a.path.suffix \in {"_corrected_transcript.json",
                                   "_corrected_transcript.txt"}

(***************************************************************************)
(* Claims about correct_transcript_with_openai (SpecC)                     *)
(***************************************************************************)
\* the call got past its checks of the transcript and the key
CorrectStarted ==
    /\ t_out # Pending
    /\ t_in.transcript # ""
    /\ (t_in.api_key # "" \/ t_in.env_key # "")

\* attempt k ended in a rate-limit or an API error
FailedRetryably(k) == t_in.outcomes[k].kind \in {"RateLimitError", "APIError"}

\* C13: a correction call makes at most max_retries + 1 requests; each
\* rate-limit or API error before the limit is followed by another request;
\* and when request number max_retries + 1 fails with such an error too, the
\* call raises TranscriptionCorrectionError wrapping that last failure.
C13_RetryBudget ==
    CorrectStarted =>
        LET limit == t_in.opt.max_retries
            made  == CountRequests(t_out.trace)
        IN  /\ made >= 1
            /\ made <= limit + 1
            /\ \A k \in 1..made :
                   (FailedRetryably(k) /\ k <= limit) => made > k
            /\ (\A k \in 1..(limit + 1) : FailedRetryably(k)) =>
                   /\ made = limit + 1
                   /\ t_out.outcome = "raise"
                   /\ t_out.error = "TranscriptionCorrectionError"
                   /\ t_out.cause = t_in.outcomes[limit + 1].kind

\* a call that used its whole budget on errors of both kinds, the last one
\* differing from the first
C13_Witness ==
    /\ CorrectStarted
    /\ t_in.opt.max_retries = 2
    /\ t_in.outcomes[1].kind = "RateLimitError"
    /\ t_in.outcomes[2].kind = "RateLimitError"
    /\ t_in.outcomes[3].kind = "APIError"
    /\ CountRequests(t_out.trace) = 3
    /\ t_out.outcome = "raise"
    /\ t_out.cause = "APIError"

\* C14: the wait before retry number n is 5 * n seconds after a rate-limit
\* error and 2 * n seconds after any other API error.
C14_BackoffByKind ==
    CorrectStarted =>
        \A n \in 1..Len(Sleeps(t_out.trace)) :
            Sleeps(t_out.trace)[n] =
                IF t_in.outcomes[n].kind = "RateLimitError"
                THEN 5 * n ELSE 2 * n

\* C15: an exception that is neither a rate-limit nor an API error ends the
\* call at once with TranscriptionCorrectionError: that request is the last
\* one and no sleep follows it, whatever is left of the budget.
C15_OtherExceptionTerminal ==
    CorrectStarted =>
        \A k \in 1..CountRequests(t_out.trace) :
            t_in.outcomes[k].kind = "Exception" =>
                /\ CountRequests(t_out.trace) = k
                /\ Len(Sleeps(t_out.trace)) = k - 1
                /\ t_out.trace[Len(t_out.trace)] = EvRequest
                /\ t_out.outcome = "raise"
                /\ t_out.error = "TranscriptionCorrectionError"
                /\ t_out.cause = "Exception"

\* the first attempt raises some other exception with two retries left
C15_Witness ==
    /\ CorrectStarted
    /\ t_in.opt.max_retries = 2
    /\ t_in.outcomes[1].kind = "Exception"
    /\ t_out.trace = <<EvRequest>>
    /\ t_out.outcome = "raise"

\* C16: with structured output requested, a completion that is not valid
\* JSON makes the call return a result whose corrected_transcript is the raw
\* completion text and which carries the parse-error marker; that request is
\* the last one and no sleep follows it.
C16_BadJsonReturned ==
    (CorrectStarted /\ t_in.opt.format_output) =>
        \A k \in 1..CountRequests(t_out.trace) :
            (t_in.outcomes[k].kind = "completion"
                 /\ t_in.outcomes[k].text = "{corrected") =>
                /\ t_out.outcome = "return"
                /\ t_out.corrected_transcript = "{corrected"
                /\ t_out.marker = "Failed to parse JSON response"
                /\ CountRequests(t_out.trace) = k
                /\ Len(Sleeps(t_out.trace)) = k - 1

\* the malformed completion arrives on the first attempt, retries being left
C16_Witness ==
    /\ CorrectStarted
    /\ t_in.opt.format_output
    /\ t_in.opt.max_retries = 2
    /\ t_in.outcomes[1] = [kind |-> "completion", text |-> "{corrected"]
    /\ t_out.outcome = "return"
    /\ t_out.marker = "Failed to parse JSON response"
    /\ t_out.trace = <<EvRequest>>

(***************************************************************************)
(* Claims about the request parameters (SpecP)                             *)
(***************************************************************************)
Built == t_out # Pending

\* the language selected is "auto": in the settings, or in the options a
\* caller passes (or leaves out, "auto" being the default)
SelectedAuto ==
    IF t_in.route = "app" THEN t_in.vals.language = "auto"
    ELSE "language" \notin t_in.given \/ t_in.vals.language = "auto"

\* C19: whenever the selected language is "auto", the request carries no
\* language parameter and carries the auto-detection parameter, on both
\* routes.
C19_AutoLanguage ==
    (Built /\ SelectedAuto) =>
        /\ "language" \notin DOMAIN t_out.params
        /\ "detect_language" \in DOMAIN t_out.params

OptionalParams == OptionKeys \ {"model"}
RecognitionFlags ==
    {"punctuate", "diarize", "smart_format", "utterances", "summarize",
     "detect_topics", "profanity_filter", "redact", "alternatives"}
AllDefaults ==
    t_out.merged =
        [model |-> "nova-2", punctuate |-> TRUE, diarize |-> FALSE,
         smart_format |-> TRUE, language |-> "auto", detect_language |-> TRUE,
         summarize |-> FALSE, detect_topics |-> FALSE, utterances |-> FALSE,
         profanity_filter |-> FALSE, redact |-> "None", alternatives |-> 1]

C30_EveryCompletionReturns ==
    (CorrectStarted /\ t_in.opt.format_output) =>
        \A k \in 1..CountRequests(t_out.trace) :
            t_in.outcomes[k].kind = "completion" =>
                LET text == t_in.outcomes[k].text IN
                /\ t_out.outcome = "return"
                /\ text = "{\"corrected_transcript\": \"Fixed text.\"}" =>
                       /\ t_out.corrected_transcript = "Fixed text."
                       /\ t_out.marker = "none"
                /\ text \in {"{}", "[1]", "{corrected"} =>
                       /\ t_out.corrected_transcript = text
                       /\ t_out.marker = "Failed to parse JSON response"

(***************************************************************************)
(* Further claims about the batch                                          *)
(***************************************************************************)
\* C21: files are handled in queue order, and whenever the transcription
\* call of a file returns (does not raise), empty transcript or not, the
\* worker goes on to write the raw result and counts no error for it.
C21_RawOnEverySuccess ==
    [][\A w \in Runs :
         /\ Len(workers'[w].log) > Len(workers[w].log)
              => workers'[w].i = Len(workers[w].log) + 1
         /\ (workers[w].pc = "transcribing"
               /\ workers'[w].pc # "transcribing"
               /\ workers'[w].log # Append(workers[w].log, "transcribe"))
              => /\ workers'[w].pc = "raw_json"
                 /\ workers'[w].errors = workers[w].errors]_vars

\* C29: two distinct files of a queue never get the same artifact path, and
\* the raw artifact of a file counted as processed is on disk with that
\* file's content, not with another file's.
C29_DistinctArtifactPaths ==
    \A w \in Runs :
        LET wk == workers[w] IN
        /\ \A j, k \in 1..Len(wk.files) :
               (j # k /\ wk.files[j] # wk.files[k]) =>
                   /\ RawJsonPath(wk.start_dir, wk.files[j])
                        # RawJsonPath(wk.start_dir, wk.files[k])
                   /\ RawTxtPath(wk.start_dir, wk.files[j])
                        # RawTxtPath(wk.start_dir, wk.files[k])
                   /\ CorrJsonPath(wk.start_dir, wk.files[j])
                        # CorrJsonPath(wk.start_dir, wk.files[k])
                   /\ CorrTxtPath(wk.start_dir, wk.files[j])
                        # CorrTxtPath(wk.start_dir, wk.files[k])
        /\ \A k \in 1..Len(wk.log) :
               wk.log[k] = "ok" =>
                   \E a \in disk :
                       /\ a.src = wk.files[k]
                       /\ a.path.sub = "raw_transcripts"
                       /\ a.path.suffix = "_raw.json"

\* C25: once a stop was requested during a run, the worker of that run is
\* inside the processing of a file only if it was inside that same file when
\* the stop was requested, whatever starts follow the stop.
C25_StopSurvivesRestart ==
    \A w \in Runs :
        (workers[w].stop_req /\ workers[w].pc \in InFile)
            => workers[w].i = workers[w].stop_at

\* C26: a worker breaks out of its loop, or leaves without a summary, only
\* if a stop was requested during its own run.
C26_EarlyEndOnlyOnStop ==
    \A w \in Runs :
        /\ workers[w].broke => workers[w].stop_req
        /\ (workers[w].pc \in {"finally", "done"}
              /\ workers[w].summary = "none") => workers[w].stop_req

\* C27: a worker writes its artifacts and its summary only under the batch
\* directory created by the start that spawned it.
C27_OwnBatchDir ==
    \A w \in Runs : ~workers[w].strayed

\* C22: while a worker is alive, every step that writes the cancellation
\* flag, the batch directory or the queue is a step of a worker.
C22_SingleWriter ==
    [][((\E w \in Runs : Alive(w))
          /\ (batch_processing_active' # batch_processing_active
                \/ batch_dir' # batch_dir
                \/ batch_files' # batch_files))
         => \E w \in Runs :
                Alive(w) /\ workers'[w].pc # workers[w].pc]_vars

\* number of entries of a log that are / are not "ok"
RECURSIVE CountOk(_)
CountOk(log) ==
    IF log = << >> THEN 0
    ELSE (IF Head(log) = "ok" THEN 1 ELSE 0) + CountOk(Tail(log))

\* C23: in a run whose queue is not modified, processed + errors is the
\* number of files finished so far; every step that finishes a file adds one
\* to exactly one of the two counters and no other step touches them; and a
\* loop that ended without a break leaves processed + errors = total_files.
C23_CountersAddUp ==
    /\ [](\A w \in Runs :
            LET wk == workers[w] IN
            /\ wk.processed + wk.errors = wk.i
            /\ Len(wk.log) = wk.i
            /\ wk.processed = CountOk(wk.log)
            /\ wk.errors = Len(wk.log) - CountOk(wk.log)
            /\ (wk.pc \in {"final", "finally", "done"} /\ ~wk.broke)
                 => wk.processed + wk.errors = wk.total_files)
    /\ [][\A w \in Runs :
            LET dp == workers'[w].processed - workers[w].processed
                de == workers'[w].errors - workers[w].errors
            IN  /\ dp \in {0, 1}
                /\ de \in {0, 1}
                /\ dp + de = workers'[w].i - workers[w].i
                /\ dp + de = Len(workers'[w].log) - Len(workers[w].log)
                /\ dp + de = 1
                     <=> (workers[w].pc \in InFile /\ workers'[w].pc = "check")]_vars

\* a three-file run that was not stopped, with successes and errors
C23_Witness ==
    /\ workers[1].pc = "done"
    /\ ~workers[1].broke
    /\ workers[1].total_files = 3
    /\ workers[1].log = <<"no_transcript", "ok", "correct">>
    /\ workers[1].processed = 1
    /\ workers[1].errors = 2

\* C24: a file is counted as processed exactly when its transcription
\* returned a non-empty transcript, both raw artifacts were written and, if
\* do_correction holds, the correction call and both corrected writes
\* succeeded; a file whose correction failed is an error whose two raw
\* artifacts were written before and are still on disk.
C24_ProcessedMeansAllSteps ==
    \A w \in Runs :
        LET wk == workers[w] IN
        /\ wk.processed = CountOk(wk.log)
        /\ Len(wk.steps) = Len(wk.log)
        /\ \A k \in 1..Len(wk.log) :
             /\ wk.log[k] = "ok"
                  <=> wk.steps[k] =
                        {"transcript", "raw_json", "raw_txt"}
                          \cup (IF wk.do_correction
                                THEN {"corrected", "corr_json", "corr_txt"}
                                ELSE {})
             /\ wk.log[k] = "correct"
                  => /\ wk.steps[k] = {"transcript", "raw_json", "raw_txt"}
                     /\ \A sfx \in {"_raw.json", ".txt"} :
                          \E a \in disk :
                            /\ a.path.dir = wk.start_dir
                            /\ a.path.sub = "raw_transcripts"
                            /\ a.path.base = wk.files[k].stem
                            /\ a.path.suffix = sfx

\* the correction of the first file failed, the second file went through:
\* two files have raw artifacts, one is counted as processed
C24_Witness ==
    /\ workers[1].do_correction
    /\ workers[1].log = <<"correct", "ok">>
    /\ workers[1].processed = 1
    /\ workers[1].errors = 1
    /\ Cardinality({ a.path.base : a \in { b \in disk :
                        b.path.suffix = "_raw.json" } }) = 2

\* C28: the files of a run are fixed when it starts, whatever is added to or
\* cleared from the queue while the worker runs: the worker starts exactly
\* total_files files, the file it is at is one of these, and the progress it
\* displays never exceeds 100.
C28_QueueFixedAtStart ==
    \A w \in Runs :
        LET wk == workers[w] IN
        /\ wk.pc \in InFile => wk.i < wk.total_files
        /\ Len(wk.log) <= wk.total_files
        /\ wk.progress <= 100
        /\ (wk.pc \in {"final", "done"} /\ ~wk.broke)
               => Len(wk.log) = wk.total_files

====
